---- MODULE Spec2Model ----
(***************************************************************************)
(* Public subnet discovery and instance placement of the SFTP gateway      *)
(* stack.  Two Pulumi programs live in the repository:                     *)
(*   - src/unnamed/part_000: publicSubnets classifies every subnet of the  *)
(*     default VPC by its route table, sftpInstance is placed in the first *)
(*     subnet of the classified list;                                      *)
(*   - src/index.ts: publicSubnets is the bare subnet enumeration,         *)
(*     sftpInstance is placed in its first element.                        *)
(* The cloud inventory (subnets, route tables, associations) is a          *)
(* read-only snapshot fixed in Init; every lookup either answers from the  *)
(* inventory or fails with a transient/permission error chosen when the    *)
(* call is made.                                                           *)
(***************************************************************************)
EXTENDS Integers, Sequences, FiniteSets, TLC

VARIABLES
    program,          \* which of the two programs runs
    vpcSubnets,       \* inventory: subnet ids of the VPC, in enumeration order
    explicitAssoc,    \* inventory: subnet id -> explicitly associated table id, or NoAssoc
    mainTable,        \* inventory: id of the VPC's main route table, or NoAssoc
    pc,               \* position of the program
    subnets,          \* subnets.ids as fetched by getSubnets
    idx,              \* position of the for..of iteration in subnets
    publicSubnetIds,  \* the accumulator of the loop
    result,           \* resolved value of publicSubnets: <<>> until resolved, then <<list>>
    thrown,           \* the error the apply callback rejected with, or NoError
    subnetId,         \* sftpInstance.subnetId: <<>> is undefined, <<s>> a subnet id
    lookups           \* history of the getRouteTable calls issued, with their outcomes

vars == <<program, vpcSubnets, explicitAssoc, mainTable, pc, subnets, idx,
          publicSubnetIds, result, thrown, subnetId, lookups>>

---------------------------------------------------------------------------
(* Bounds *)

MaxSubnets == 3

Subnets == 1..MaxSubnets

---------------------------------------------------------------------------
(* Strings are sequences of characters, messages sequences of words, so    *)
(* that startsWith and includes are computed, not assumed.                 *)

StartsWith(s, p) ==
    /\ Len(s) >= Len(p)
    /\ SubSeq(s, 1, Len(p)) = p

Includes(s, p) ==
    \E i \in 0..(Len(s) - Len(p)) : SubSeq(s, i + 1, i + Len(p)) = p

IgwPrefix == <<"i", "g", "w", "-">>

NoResultsPhrase == <<"query", "returned", "no", "results">>

---------------------------------------------------------------------------
(* The inventory's values *)

NoAssoc == "none"

Gw(chars) == [defined |-> TRUE, gatewayId |-> chars]

NoGw == [defined |-> FALSE, gatewayId |-> <<>>]

RouteTableIds == {"rtb-empty", "rtb-igw", "rtb-nat", "rtb-vgw"}

Routes(id) ==
    CASE id = "rtb-empty" -> <<>>
      [] id = "rtb-igw"   -> <<Gw(<<"l", "o", "c", "a", "l">>), Gw(<<"i", "g", "w", "-", "1">>)>>
      [] id = "rtb-nat"   -> <<NoGw, Gw(<<>>)>>
      [] id = "rtb-vgw"   -> <<Gw(<<"l", "o", "c", "a", "l">>), Gw(<<"v", "g", "w", "-", "i", "g", "w", "-", "1">>)>>

NoError == [isError |-> FALSE, message |-> <<>>]

Err(words) == [isError |-> TRUE, message |-> words]

NoResultsError ==
    Err(<<"Your", "query", "returned", "no", "results", "Please", "change", "your", "search", "criteria">>)

TransientErrors ==
    { Err(<<"AccessDenied", "not", "authorized", "to", "perform", "ec2:DescribeRouteTables">>),
      Err(<<"RequestError", "send", "request", "failed", "query", "returned", "no", "response">>) }

Found(id) == [ok |-> TRUE, routes |-> Routes(id), error |-> NoError]

Fail(e) == [ok |-> FALSE, routes |-> <<>>, error |-> e]

InventoryAnswer(id) == IF id = NoAssoc THEN Fail(NoResultsError) ELSE Found(id)

ExplicitOutcomes(s) ==
    {InventoryAnswer(explicitAssoc[s])} \cup {Fail(e) : e \in TransientErrors}

MainOutcomes ==
    {InventoryAnswer(mainTable)} \cup {Fail(e) : e \in TransientErrors}

SubnetsOutcomes ==
    {[ok |-> TRUE, ids |-> vpcSubnets, error |-> NoError]}
        \cup {[ok |-> FALSE, ids |-> <<>>, error |-> e] : e \in TransientErrors}

Enumerations ==
    UNION { {q \in [1..n -> Subnets] : \A i, j \in 1..n : i # j => q[i] # q[j]} : n \in 0..MaxSubnets }

---------------------------------------------------------------------------
(* The pieces of publicSubnets (part_000) *)

IsIgwRoute(route) == route.defined /\ StartsWith(route.gatewayId, IgwPrefix)

IsPublic_Every(routes) == \A i \in DOMAIN routes : IsIgwRoute(routes[i])

IsPublic(routes) == \E i \in DOMAIN routes : IsIgwRoute(routes[i])

IsNoResultsError(e) == e.isError /\ Includes(e.message, NoResultsPhrase)

Push_Front(list, s) == <<s>> \o list

Push(list, s) == Append(list, s)

CurrentSubnet_Reversed == subnets[Len(subnets) + 1 - idx]

CurrentSubnet == subnets[idx]

HasNext == idx <= Len(subnets)

NextPcAfterGetSubnets_RejectEmpty(outcome) ==
    IF outcome.ok /\ outcome.ids # <<>> THEN "loop" ELSE "failed"

NextPcAfterGetSubnets(outcome) ==
    IF outcome.ok THEN "loop" ELSE "failed"

NextPcAfterExplicit_FallbackWhenPrivate(outcome) ==
    IF outcome.ok THEN (IF IsPublic(outcome.routes) THEN "loop" ELSE "fallback")
    ELSE IF IsNoResultsError(outcome.error) THEN "fallback"
    ELSE "failed"

NextPcAfterExplicit_Swallow(outcome) ==
    IF outcome.ok THEN "loop"
    ELSE IF IsNoResultsError(outcome.error) THEN "fallback"
    ELSE "loop"

NextPcAfterExplicit(outcome) ==
    IF outcome.ok THEN "loop"
    ELSE IF IsNoResultsError(outcome.error) THEN "fallback"
    ELSE "failed"

NextPcAfterMain_NotFoundPrivate(outcome) ==
    IF outcome.ok THEN "loop"
    ELSE IF IsNoResultsError(outcome.error) THEN "loop"
    ELSE "failed"

NextPcAfterMain(outcome) ==
    IF outcome.ok THEN "loop" ELSE "failed"

Rethrow_Wrapped(e) == Err(<<"route", "table", "lookup", "failed">>)

Rethrow(e) == e

ReturnValue == <<publicSubnetIds>>

FirstElement_Last(list) == IF Len(list) >= 1 THEN <<list[Len(list)]>> ELSE <<>>

FirstElement(list) == IF Len(list) >= 1 THEN <<list[1]>> ELSE <<>>

---------------------------------------------------------------------------

Init ==
    /\ program \in {"part_000", "index.ts"}
    /\ vpcSubnets \in Enumerations
    /\ explicitAssoc \in [Subnets -> RouteTableIds \cup {NoAssoc}]
    /\ mainTable \in RouteTableIds \cup {NoAssoc}
    /\ pc = "start"
    /\ subnets = <<>>
    /\ idx = 1
    /\ publicSubnetIds = <<>>
    /\ result = <<>>
    /\ thrown = NoError
    /\ subnetId = <<>>
    /\ lookups = <<>>

Inventory == <<program, vpcSubnets, explicitAssoc, mainTable>>

(* part_000, lines 17-21: enumerate the subnets, start the loop *)
GetSubnets ==
    /\ program = "part_000"
    /\ pc = "start"
    /\ \E o \in SubnetsOutcomes :
        /\ subnets' = o.ids
        /\ pc' = NextPcAfterGetSubnets(o)
        /\ thrown' = IF o.ok THEN NoError ELSE o.error
    /\ idx' = 1
    /\ publicSubnetIds' = <<>>
    /\ UNCHANGED <<Inventory, result, subnetId, lookups>>

(* part_000, lines 22-36 and 47-50: the explicit-association lookup of the
   current subnet, the push, and the catch up to its next await *)
ExplicitLookup ==
    /\ program = "part_000"
    /\ pc = "loop"
    /\ HasNext
    /\ \E o \in ExplicitOutcomes(CurrentSubnet) :
        /\ lookups' = Append(lookups, [kind |-> "explicit", subnet |-> CurrentSubnet, outcome |-> o])
        /\ pc' = NextPcAfterExplicit(o)
        /\ publicSubnetIds' =
              IF o.ok /\ IsPublic(o.routes) THEN Push(publicSubnetIds, CurrentSubnet)
              ELSE publicSubnetIds
        /\ idx' = IF pc' = "loop" THEN idx + 1 ELSE idx
        /\ thrown' = IF pc' = "failed" THEN Rethrow(o.error) ELSE thrown
    /\ UNCHANGED <<Inventory, subnets, result, subnetId>>

(* part_000, lines 37-46: the main route table lookup inside the catch *)
MainLookup ==
    /\ program = "part_000"
    /\ pc = "fallback"
    /\ \E o \in MainOutcomes :
        /\ lookups' = Append(lookups, [kind |-> "main", subnet |-> CurrentSubnet, outcome |-> o])
        /\ pc' = NextPcAfterMain(o)
        /\ publicSubnetIds' =
              IF o.ok /\ IsPublic(o.routes) THEN Push(publicSubnetIds, CurrentSubnet)
              ELSE publicSubnetIds
        /\ idx' = IF pc' = "loop" THEN idx + 1 ELSE idx
        /\ thrown' = IF pc' = "failed" THEN Rethrow(o.error) ELSE thrown
    /\ UNCHANGED <<Inventory, subnets, result, subnetId>>

(* part_000, line 54: the loop is over, the list is returned *)
Return ==
    /\ program = "part_000"
    /\ pc = "loop"
    /\ ~HasNext
    /\ result' = ReturnValue
    /\ pc' = "returned"
    /\ UNCHANGED <<Inventory, subnets, idx, publicSubnetIds, thrown, subnetId, lookups>>

(* part_000, lines 172-179: sftpInstance is placed in subnets[0] *)
PlaceInstance ==
    /\ program = "part_000"
    /\ pc = "returned"
    /\ subnetId' = FirstElement(result[1])
    /\ pc' = "placed"
    /\ UNCHANGED <<Inventory, subnets, idx, publicSubnetIds, result, thrown, lookups>>

(* index.ts, lines 14-16: publicSubnets is the result of getSubnets *)
IndexGetSubnets ==
    /\ program = "index.ts"
    /\ pc = "start"
    /\ \E o \in SubnetsOutcomes :
        /\ subnets' = o.ids
        /\ pc' = IF o.ok THEN "fetched" ELSE "failed"
        /\ thrown' = IF o.ok THEN NoError ELSE o.error
    /\ UNCHANGED <<Inventory, idx, publicSubnetIds, result, subnetId, lookups>>

(* index.ts, line 126: sftpInstance is placed in subnets.ids[0] *)
IndexPlaceInstance ==
    /\ program = "index.ts"
    /\ pc = "fetched"
    /\ subnetId' = FirstElement(subnets)
    /\ pc' = "placed"
    /\ UNCHANGED <<Inventory, subnets, idx, publicSubnetIds, result, thrown, lookups>>

Next ==
    \/ GetSubnets
    \/ ExplicitLookup
    \/ MainLookup
    \/ Return
    \/ PlaceInstance
    \/ IndexGetSubnets
    \/ IndexPlaceInstance

Spec == Init /\ [][Next]_vars

FairSpec == Spec /\ WF_vars(Next)

---------------------------------------------------------------------------
(* What the claims speak of, stated from the inventory and the call        *)
(* history, independently of the operators the actions use.                *)

Range(q) == {q[i] : i \in DOMAIN q}

GatewayIsIgw(route) ==
    /\ route.defined
    /\ Len(route.gatewayId) >= 4
    /\ route.gatewayId[1] = "i"
    /\ route.gatewayId[2] = "g"
    /\ route.gatewayId[3] = "w"
    /\ route.gatewayId[4] = "-"

HasIgwRoute(routes) == \E i \in DOMAIN routes : GatewayIsIgw(routes[i])

EffectiveTable(s) ==
    IF explicitAssoc[s] # NoAssoc THEN explicitAssoc[s] ELSE mainTable

JudgedPublic(s) ==
    /\ EffectiveTable(s) # NoAssoc
    /\ HasIgwRoute(Routes(EffectiveTable(s)))

NotFound(l) ==
    ~l.outcome.ok /\ Includes(l.outcome.error.message, NoResultsPhrase)

Fatal(l) == ~l.outcome.ok /\ ~NotFound(l)

Benign(l) == l.outcome.ok \/ (l.kind = "explicit" /\ NotFound(l))

Classified == program = "part_000" /\ pc \in {"returned", "placed"}

Terminated == pc \in {"placed", "failed"}

---------------------------------------------------------------------------
(* C1: when every lookup succeeded, or failed with not-found on the
   explicit lookup only, the list the classification returns is exactly the
   enumerated subnets whose effective route table (the explicitly
   associated one if there is one, the main one otherwise) has a route
   whose gateway id starts with "igw-", and nothing else. *)
C1_ResultIsPublicSubnets ==
    (Classified /\ \A i \in DOMAIN lookups : Benign(lookups[i]))
        => result = <<SelectSeq(vpcSubnets, JudgedPublic)>>

C1_Witness ==
    /\ Classified
    /\ Len(vpcSubnets) = 2
    /\ Len(result[1]) = 1
    /\ explicitAssoc[result[1][1]] = NoAssoc
    /\ \E i \in DOMAIN lookups :
          lookups[i].kind = "explicit" /\ lookups[i].outcome.ok
              /\ lookups[i].outcome.routes # <<>>

(* C2: whenever the instance gets a placement subnet, that subnet is the
   first element of the classifier's output and is one judged public; it is
   never a subnet judged private or never classified. *)
C2_PlacementIsJudgedPublic ==
    (pc = "placed" /\ subnetId # <<>>)
        => /\ result # <<>>
           /\ result[1] # <<>>
           /\ subnetId[1] = result[1][1]
           /\ JudgedPublic(subnetId[1])

(* C3: a route-table lookup that failed with an error other than not-found
   ends the classification with that same error and without any returned
   list or placement, also when earlier subnets were already judged
   public. *)
C3_FatalAbortsWithSameError ==
    \A i \in DOMAIN lookups :
        Fatal(lookups[i])
            => /\ pc = "failed"
               /\ thrown = lookups[i].outcome.error
               /\ result = <<>>
               /\ subnetId = <<>>

C3_Witness ==
    /\ pc = "failed"
    /\ publicSubnetIds # <<>>
    /\ \E i \in DOMAIN lookups : Fatal(lookups[i])

(* C4: the returned list is a subsequence of the subnet enumeration: its
   elements are enumerated subnets, any two of them stand in the order of
   the enumeration, and none appears twice. *)
C4_ResultIsSubsequence ==
    result # <<>> =>
        /\ \A i \in DOMAIN result[1] : result[1][i] \in Range(vpcSubnets)
        /\ \A i, j \in DOMAIN result[1] :
              i < j => \E a, b \in DOMAIN vpcSubnets :
                          /\ a < b
                          /\ vpcSubnets[a] = result[1][i]
                          /\ vpcSubnets[b] = result[1][j]

C4_Witness ==
    /\ result # <<>>
    /\ Len(result[1]) = 2
    /\ result[1][1] > result[1][2]
    /\ \E i, j \in DOMAIN lookups :
          /\ lookups[i].kind = "main" /\ lookups[i].outcome.ok
          /\ lookups[j].kind = "explicit" /\ lookups[j].outcome.ok

(* C5: a subnet whose explicit route table was found and has no
   internet-gateway route is left out of the result, and the main route
   table is never looked up for it, whatever the main table holds. *)
C5_ExplicitPrivateIsFinal ==
    \A i \in DOMAIN lookups :
        (lookups[i].kind = "explicit" /\ lookups[i].outcome.ok
            /\ ~HasIgwRoute(lookups[i].outcome.routes))
            => /\ lookups[i].subnet \notin Range(publicSubnetIds)
               /\ result # <<>> => lookups[i].subnet \notin Range(result[1])
               /\ \A j \in DOMAIN lookups :
                     lookups[j].kind = "main" => lookups[j].subnet # lookups[i].subnet

C5_Witness ==
    /\ pc = "placed"
    /\ mainTable = "rtb-igw"
    /\ \E i \in DOMAIN lookups :
          /\ lookups[i].kind = "explicit" /\ lookups[i].outcome.ok
          /\ lookups[i].outcome.routes # <<>>
          /\ ~HasIgwRoute(lookups[i].outcome.routes)

(* C6: once a VPC's enumeration came back empty, the classification issues
   no route-table lookup, raises no error, and what it returns is the empty
   list. *)
C6_EmptyVpcReturnsEmpty ==
    (program = "part_000" /\ vpcSubnets = <<>> /\ pc # "start" /\ thrown = NoError)
        => /\ lookups = <<>>
           /\ pc \in {"loop", "returned", "placed"}
           /\ pc = "loop" => ENABLED Return
           /\ pc \in {"returned", "placed"} => result = << <<>> >>

C6_Witness ==
    /\ program = "part_000"
    /\ vpcSubnets = <<>>
    /\ pc = "returned"
    /\ result = << <<>> >>

(* C7: the explicit lookups are issued one subnet at a time in enumeration
   order; a main-table lookup comes only right after the explicit lookup of
   the same subnet failed with not-found; so no subnet has more than two
   lookups and n subnets cost at most 2n lookups, after which, every
   lookup returning, the classification has ended. *)
ExplicitLookups == SelectSeq(lookups, LAMBDA l : l.kind = "explicit")

(* C7, its safety half: the order, the adjacency and the counts. *)
C7_SequentialLookups ==
    /\ Len(ExplicitLookups) <= Len(vpcSubnets)
    /\ \A k \in DOMAIN ExplicitLookups : ExplicitLookups[k].subnet = vpcSubnets[k]
    /\ \A i \in DOMAIN lookups :
          lookups[i].kind = "main"
              => /\ i > 1
                 /\ lookups[i - 1].kind = "explicit"
                 /\ lookups[i - 1].subnet = lookups[i].subnet
                 /\ NotFound(lookups[i - 1])
    /\ \A s \in Subnets :
          Cardinality({i \in DOMAIN lookups : lookups[i].subnet = s}) <= 2
    /\ Len(lookups) <= 2 * Len(vpcSubnets)

C7_SequentialAndTerminates == []C7_SequentialLookups /\ <>Terminated

C7_Witness ==
    /\ Classified
    /\ Len(vpcSubnets) = 2
    /\ Len(lookups) = 3
    /\ lookups[1].kind = "explicit" /\ lookups[1].outcome.ok
    /\ lookups[3].kind = "main"

(* C8: a lookup that failed with an error other than not-found is the last
   lookup of the classification: no retry, no fallback, no later subnet. *)
C8_NoLookupAfterFatal ==
    \A i \in DOMAIN lookups : Fatal(lookups[i]) => i = Len(lookups)

C8_Witness ==
    /\ pc = "failed"
    /\ Len(vpcSubnets) = 2
    /\ Len(lookups) = 1
    /\ lookups[1].kind = "explicit"
    /\ Fatal(lookups[1])

(* C9: every failure of the main-table lookup, a not-found one included,
   ends the classification with that error; the subnet is not silently
   counted private and no list is returned. *)
C9_MainFailureAborts ==
    \A i \in DOMAIN lookups :
        (lookups[i].kind = "main" /\ ~lookups[i].outcome.ok)
            => /\ i = Len(lookups)
               /\ pc = "failed"
               /\ thrown = lookups[i].outcome.error
               /\ result = <<>>

C9_Witness ==
    /\ pc = "failed"
    /\ lookups # <<>>
    /\ lookups[Len(lookups)].kind = "main"
    /\ NotFound(lookups[Len(lookups)])

(* C10: a classification that completes with an empty list raises no error
   and the placement step still runs: the instance's subnet is then
   undefined; after any other completed classification it is the first
   public subnet of the enumeration. *)
C10_PlacementOfCompletedRun ==
    /\ (Classified /\ pc = "returned") => (thrown = NoError /\ ENABLED PlaceInstance)
    /\ (Classified /\ pc = "placed")
          => /\ thrown = NoError
             /\ SelectSeq(vpcSubnets, JudgedPublic) = <<>> => subnetId = <<>>
             /\ SelectSeq(vpcSubnets, JudgedPublic) # <<>>
                   => subnetId = <<SelectSeq(vpcSubnets, JudgedPublic)[1]>>

C10_Witness ==
    /\ Classified
    /\ pc = "placed"
    /\ vpcSubnets # <<>>
    /\ result = << <<>> >>
    /\ subnetId = <<>>

====
